---- MODULE Spec2Model ----
(***************************************************************************)
(* Model of the deme / metapopulation simulation: Genotype (genotype.py),  *)
(* Neighbour and Deme (deme.py) and TwoDTorus (metapopulation.py).         *)
(*                                                                         *)
(* Python floats are modelled by exact rationals <<numerator, denominator>>*)
(* in lowest terms with a positive denominator, so that conservation and   *)
(* equality statements are statements of exact arithmetic.                 *)
(* Python lists are sequences; list index i is sequence index i + 1.       *)
(* A deme is identified by its grid position <<r, c>> (self.demes[r][c]).  *)
(* Every deme is assumed to be given a density list object of its own.     *)
(***************************************************************************)
EXTENDS Integers, Sequences, FiniteSets, TLC

VARIABLES
    xlen,        \* TwoDTorus.xlen (0 while no torus exists)
    ylen,        \* TwoDTorus.ylen (0 while no torus exists)
    genotypes,   \* the shared list of Genotype objects
    demes,       \* position -> Deme object (self.demes[r][c], or the lone deme)
    pc,          \* "new", "idle", "fill", "send" (inside migration()), "failed"
    idx,         \* row-major index of the next deme inside migration()
    error,       \* the exception that ended the run, or "none"
    nops,        \* number of driver calls made so far
    lastOp,      \* the last driver call: [op, at]
    pre          \* densities of every deme when migration() was entered

vars == <<xlen, ylen, genotypes, demes, pc, idx, error, nops, lastOp, pre>>

---------------------------------------------------------------------------
(* Bounds of the model *)

\* grid widths 1..MaxX and heights 1..MaxY
MaxX == 3
MaxY == 3
\* number of driver calls after construction
MaxOps == 2

---------------------------------------------------------------------------
(* Exact arithmetic for float values *)

RECURSIVE GCD(_, _)
GCD(a, b) == IF b = 0 THEN a ELSE GCD(b, a % b)

Abs(n) == IF n < 0 THEN 0 - n ELSE n

Rat(n, d) ==
    LET g == GCD(Abs(n), Abs(d))
        s == IF d < 0 THEN 0 - 1 ELSE 1
    IN  <<s * (n \div g), s * (d \div g)>>

Zero == Rat(0, 1)
One == Rat(1, 1)

\* a + b over the least common denominator
RAdd(a, b) ==
    LET g == GCD(a[2], b[2])
    IN  Rat(a[1] * (b[2] \div g) + b[1] * (a[2] \div g), (a[2] \div g) * b[2])

RNeg(a) == <<0 - a[1], a[2]>>

RSub(a, b) == RAdd(a, RNeg(b))

\* a * b, cancelling across before multiplying
RMul(a, b) ==
    LET g1 == GCD(Abs(a[1]), b[2])
        g2 == GCD(Abs(b[1]), a[2])
    IN  Rat((a[1] \div g1) * (b[1] \div g2), (a[2] \div g2) * (b[2] \div g1))

\* a / b for b # 0
RDiv(a, b) ==
    RMul(a, IF b[1] < 0 THEN <<0 - b[2], 0 - b[1]>> ELSE <<b[2], b[1]>>)

RLe(a, b) == RSub(a, b)[1] <= 0
RLt(a, b) == RSub(a, b)[1] < 0

\* sum(list)
RECURSIVE VSum(_)
VSum(s) == IF s = <<>> THEN Zero ELSE RAdd(s[1], VSum(Tail(s)))

---------------------------------------------------------------------------
(* Genotype *)

\* self.alleles.sort()
SortAlleles(alleles) == SortSeq(alleles, LAMBDA a, b : a < b)

\* the assertions of Genotype.__init__
GenotypeValid(fitness, maxDensity) ==
    /\ RLe(Zero, fitness) /\ RLe(fitness, One)
    /\ RLt(Zero, maxDensity) /\ RLe(maxDensity, One)

\* Genotype.__init__
NewGenotype(alleles, fitness, growthRate, maxDensity) ==
    [alleles |-> SortAlleles(alleles), fitness |-> fitness,
     growthRate |-> growthRate, maxDensity |-> maxDensity]

alleleCount(g, allele) ==
    Cardinality({i \in DOMAIN g.alleles : g.alleles[i] = allele})

alleleFreq(g, allele) == Rat(alleleCount(g, allele), Len(g.alleles))

\* the assertion of Genotype.logisticGrowth
GrowthInRange(totalDensity) ==
    RLt(Zero, totalDensity) /\ RLe(totalDensity, One)

\* lam = 1 + r - (r / K) * N
Lambda(g, totalDensity) ==
    RSub(RAdd(One, g.growthRate),
         RMul(RDiv(g.growthRate, g.maxDensity), totalDensity))

\* Genotype.logisticGrowth: the value returned, or the AssertionError
GenotypeLogisticGrowth(g, density, totalDensity) ==
    IF GrowthInRange(totalDensity)
    THEN [err |-> "none", value |-> RMul(density, Lambda(g, totalDensity))]
    ELSE [err |-> "AssertionError", value |-> density]

---------------------------------------------------------------------------
(* Neighbour *)

\* the range assertion of Neighbour.__init__
RateValid(migrationRate) == RLe(Zero, migrationRate) /\ RLe(migrationRate, One)

NewNeighbour(neighbour, migrationRate) ==
    [neighbour |-> neighbour, migrationRate |-> migrationRate,
     migrantPool |-> <<>>]

\* Neighbour.fillPool
fillPool(n, sourceDensities) ==
    [n EXCEPT !.migrantPool =
        [g \in 1..Len(sourceDensities) |->
            RMul(sourceDensities[g], n.migrationRate)]]

\* Neighbour.emptyPool
emptyPool(n) == [n EXCEPT !.migrantPool = <<>>]

---------------------------------------------------------------------------
(* Deme *)

\* self.alleles: the sorted set of alleles of the genotype list
DemeAlleles(gs) == UNION {{g.alleles[i] : i \in DOMAIN g.alleles} : g \in {gs[k] : k \in DOMAIN gs}}

\* max(self.alleles)
MaxAllele(gs) == CHOOSE a \in DemeAlleles(gs) : \A b \in DemeAlleles(gs) : b <= a

currentDensity(d) == VSum(d.genotypeDensities)

\* Deme.genotypeFreqs (the total is not zero)
genotypeFreqs(d) ==
    LET tot == currentDensity(d)
    IN  [g \in 1..Len(d.genotypeDensities) |-> RDiv(d.genotypeDensities[g], tot)]

\* The exception Deme.updateAlleleFreqs raises, if any: the division by a zero
\* total in genotypeFreqs, then gFreqs[g] past the end of a short density list.
updateAlleleFreqsErr(gs, d) ==
    IF Len(d.genotypeDensities) > 0 /\ currentDensity(d) = Zero
    THEN "ZeroDivisionError"
    ELSE IF Len(d.genotypeDensities) < Len(gs) THEN "IndexError" ELSE "none"

\* Deme.updateAlleleFreqs (when it raises nothing); allele a is list index a
updateAlleleFreqs(gs, d) ==
    LET gFreqs == genotypeFreqs(d)
    IN  [d EXCEPT !.alleleFreqs =
            [a \in 1..Len(d.alleleFreqs) |->
                IF (a - 1) \in DemeAlleles(gs)
                THEN VSum([g \in 1..Len(gs) |->
                              RMul(alleleFreq(gs[g], a - 1), gFreqs[g])])
                ELSE d.alleleFreqs[a]]]

\* the assertions of Deme.__init__ and the first update of the allele
\* frequencies: the exception raised, or "none"
DemeInitErr(gs, genotypeDensities, refugeProportion) ==
    IF ~RLe(VSum(genotypeDensities), One) THEN "AssertionError"
    ELSE IF ~(RLe(Zero, refugeProportion) /\ RLe(refugeProportion, One))
    THEN "AssertionError"
    ELSE updateAlleleFreqsErr(gs, [genotypeDensities |-> genotypeDensities])

\* Deme.__init__ (when it raises nothing)
NewDeme(gs, genotypeDensities, refugeProportion) ==
    updateAlleleFreqs(gs,
        [genotypeDensities |-> genotypeDensities,
         refugeProportion |-> refugeProportion,
         alleleFreqs |-> [a \in 1..(MaxAllele(gs) + 1) |-> Zero],
         neighbours |-> <<>>])

\* for g in gIdx: self.genotypeDensities[g] = newDensities[g]
Overwrite(old, new, n) ==
    [g \in 1..Len(old) |-> IF g <= n THEN new[g] ELSE old[g]]

\* the Hardy-Weinberg frequency of a diploid genotype
HardyWeinberg(g, freqs) ==
    LET a == g.alleles
    IN  IF a[1] = a[2]
        THEN RMul(freqs[a[1] + 1], freqs[a[1] + 1])
        ELSE RMul(RMul(freqs[a[1] + 1], freqs[a[2] + 1]), Rat(2, 1))

\* Deme.randomMating (when updateAlleleFreqs raises nothing)
randomMating(gs, d) ==
    LET d1 == updateAlleleFreqs(gs, d)
        totDensity == currentDensity(d1)
        newDensities ==
            [g \in 1..Len(gs) |->
                RMul(HardyWeinberg(gs[g], d1.alleleFreqs), totDensity)]
    IN  [d1 EXCEPT !.genotypeDensities =
            Overwrite(d1.genotypeDensities, newDensities, Len(gs))]

\* Deme.logisticGrowth
logisticGrowth(gs, d) ==
    LET totDensity == currentDensity(d)
        newDensities ==
            [g \in 1..Len(gs) |->
                RMul(d.genotypeDensities[g], Lambda(gs[g], totDensity))]
    IN  [d EXCEPT !.genotypeDensities =
            Overwrite(d.genotypeDensities, newDensities, Len(gs))]

\* selection that lets nothing escape into the refuge
selectionNoRefuge(gs, d) ==
    [d EXCEPT !.genotypeDensities =
        [g \in 1..Len(@) |->
            IF g <= Len(gs) THEN RMul(@[g], gs[g].fitness) ELSE @[g]]]

\* Deme.selection
selection(gs, d) ==
    LET dens == d.genotypeDensities
        selected0 == [g \in 1..Len(dens) |->
                        RMul(dens[g], RSub(One, d.refugeProportion))]
        unselected == [g \in 1..Len(dens) |-> RMul(dens[g], d.refugeProportion)]
        selected == [g \in 1..Len(dens) |->
                        IF g <= Len(gs)
                        THEN RMul(selected0[g], gs[g].fitness)
                        ELSE selected0[g]]
        newDensities == [g \in 1..Len(dens) |-> RAdd(selected[g], unselected[g])]
    IN  [d EXCEPT !.genotypeDensities = Overwrite(dens, newDensities, Len(gs))]

\* Deme.addNeighbour
addNeighbour(d, neighbour, migrationRate) ==
    [d EXCEPT !.neighbours = Append(@, NewNeighbour(neighbour, migrationRate))]

\* the assertion of Deme.receiveMigrants
receiveMigrantsOK(d, migrants) == Len(d.genotypeDensities) = Len(migrants)

\* Deme.receiveMigrants (when the assertion holds)
receiveMigrants(gs, d, migrants) ==
    [d EXCEPT !.genotypeDensities =
        [g \in 1..Len(@) |->
            IF g <= Len(gs) THEN RAdd(@[g], migrants[g]) ELSE @[g]]]

\* the second loop of Deme.fillMigrantPools, neighbours n..end
RECURSIVE SubtractPools(_, _, _)
SubtractPools(dens, nbrs, n) ==
    IF n > Len(nbrs) THEN dens
    ELSE SubtractPools(
            [g \in 1..Len(dens) |-> RSub(dens[g], nbrs[n].migrantPool[g])],
            nbrs, n + 1)

\* fillMigrantPools in one pass: each pool is filled from what the earlier
\* pools have left and is subtracted at once
RECURSIVE fillOnePassFrom(_, _)
fillOnePassFrom(d, n) ==
    IF n > Len(d.neighbours) THEN d
    ELSE LET nb == fillPool(d.neighbours[n], d.genotypeDensities)
         IN  fillOnePassFrom(
                [d EXCEPT !.neighbours[n] = nb,
                          !.genotypeDensities =
                              [g \in 1..Len(@) |-> RSub(@[g], nb.migrantPool[g])]],
                n + 1)

fillMigrantPoolsOnePass(d) == fillOnePassFrom(d, 1)

\* Deme.fillMigrantPools: every pool is filled, then every pool is subtracted
fillMigrantPools(d) ==
    LET filled == [n \in 1..Len(d.neighbours) |->
                      fillPool(d.neighbours[n], d.genotypeDensities)]
    IN  [d EXCEPT !.neighbours = filled,
                  !.genotypeDensities = SubtractPools(@, filled, 1)]

\* Deme.sendMigrants of the deme at p, neighbours n..end, on the whole grid
\* (a neighbour may be the deme itself): the grid afterwards and the
\* exception that stopped the loop, if any
RECURSIVE sendMigrantsFrom(_, _, _, _)
sendMigrantsFrom(gs, ds, p, n) ==
    IF n > Len(ds[p].neighbours) THEN [demes |-> ds, err |-> "none"]
    ELSE LET nb == ds[p].neighbours[n]
             q == nb.neighbour
         IN  IF ~receiveMigrantsOK(ds[q], nb.migrantPool)
             THEN [demes |-> ds, err |-> "AssertionError"]
             ELSE LET ds1 == [ds EXCEPT ![q] =
                                 receiveMigrants(gs, @, nb.migrantPool)]
                      ds2 == [ds1 EXCEPT ![p].neighbours[n] = emptyPool(@)]
                  IN  sendMigrantsFrom(gs, ds2, p, n + 1)

sendMigrants(gs, ds, p) == sendMigrantsFrom(gs, ds, p, 1)

---------------------------------------------------------------------------
(* TwoDTorus *)

\* the grid positions of an xl by yl torus: self.demes[r][c]
Grid(xl, yl) == {<<r, c>> : r \in 0..(yl - 1), c \in 0..(xl - 1)}

\* d[k] is placed at self.demes[k // xlen][k % xlen]; the loops of the
\* orchestration operations visit the demes in the same order
DemeAt(xl, k) == <<k \div xl, k % xl>>

\* left neighbour without the wrap at column 0
LeftOfNoWrap(r, c, xl) == IF c = 0 THEN <<r, 0>> ELSE <<r, c - 1>>

LeftOf(r, c, xl) == IF c = 0 THEN <<r, xl - 1>> ELSE <<r, c - 1>>
RightOf(r, c, xl) == IF c = xl - 1 THEN <<r, 0>> ELSE <<r, c + 1>>
UpOf(r, c, yl) == IF r = 0 THEN <<yl - 1, c>> ELSE <<r - 1, c>>
DownOf(r, c, yl) == IF r = yl - 1 THEN <<0, c>> ELSE <<r + 1, c>>

\* the wiring loops of TwoDTorus.__init__ as they act on the deme at (r, c):
\* the row loop adds left then right, the column loop adds upper then lower
Wire(d, r, c, xl, yl, migrationRate) ==
    addNeighbour(
        addNeighbour(
            addNeighbour(
                addNeighbour(d, LeftOf(r, c, xl), migrationRate),
                RightOf(r, c, xl), migrationRate),
            UpOf(r, c, yl), migrationRate),
        DownOf(r, c, yl), migrationRate)

\* self.refugeProps: a float is broadcast, a list is taken as it is
\* (the argument is [kind, value]; a float is held as a one-element value)
refugeProps(refugeProportion, xl, yl) ==
    IF refugeProportion.kind = "float"
    THEN [k \in 1..(xl * yl) |-> refugeProportion.value[1]]
    ELSE refugeProportion.value

\* The exception TwoDTorus.__init__ raises, if any: the length of a refuge
\* list, the first deme (in creation order) whose constructor raises, the
\* range of the migration rate at the first addNeighbour.
TorusInitErr(xl, yl, gs, genotypeDensities, migrationRate, refugeProportion) ==
    IF refugeProportion.kind = "list" /\ Len(refugeProportion.value) # xl * yl
    THEN "AssertionError"
    ELSE LET props == refugeProps(refugeProportion, xl, yl)
             bad == {k \in 1..(xl * yl) :
                        DemeInitErr(gs, genotypeDensities[k], props[k]) # "none"}
         IN  IF bad # {}
             THEN LET k == CHOOSE i \in bad : \A j \in bad : i <= j
                  IN  DemeInitErr(gs, genotypeDensities[k], props[k])
             ELSE IF ~RateValid(migrationRate) THEN "AssertionError"
             ELSE "none"

\* TwoDTorus.__init__ (when it raises nothing): the grid of wired demes
NewTorus(xl, yl, gs, genotypeDensities, migrationRate, refugeProportion) ==
    LET props == refugeProps(refugeProportion, xl, yl)
    IN  [p \in Grid(xl, yl) |->
            LET k == p[1] * xl + p[2] + 1
            IN  Wire(NewDeme(gs, genotypeDensities[k], props[k]),
                     p[1], p[2], xl, yl, migrationRate)]

\* TwoDTorus.randomMating from the k-th deme on: the grid afterwards and the
\* exception that stopped the loops, if any
RECURSIVE torusRandomMatingFrom(_, _, _, _)
torusRandomMatingFrom(gs, ds, xl, k) ==
    IF k = Cardinality(DOMAIN ds) THEN [demes |-> ds, err |-> "none"]
    ELSE LET p == DemeAt(xl, k)
             e == updateAlleleFreqsErr(gs, ds[p])
         IN  IF e # "none" THEN [demes |-> ds, err |-> e]
             ELSE torusRandomMatingFrom(
                     gs, [ds EXCEPT ![p] = randomMating(gs, @)], xl, k + 1)

torusRandomMating(gs, ds, xl) == torusRandomMatingFrom(gs, ds, xl, 0)

\* TwoDTorus.logisticGrowth
torusLogisticGrowth(gs, ds) == [p \in DOMAIN ds |-> logisticGrowth(gs, ds[p])]

\* TwoDTorus.selection calls self.demes[r][c].selectio(), which no Deme has:
\* the first call raises AttributeError and no deme is changed
torusSelection(gs, ds) == [demes |-> ds, err |-> "AttributeError"]

densitiesOf(ds) == [p \in DOMAIN ds |-> ds[p].genotypeDensities]

---------------------------------------------------------------------------
(* The inputs the driver draws from *)

Half == Rat(1, 2)
Quarter == Rat(1, 4)
Tenth == Rat(1, 10)

\* constructor arguments <<alleles, fitness, growthRate, maxDensity>>
\* every genotype of alleles 0 and 1
CompleteArgs ==
    << <<(<<0, 0>>), One, One, One>>,
       <<(<<1, 0>>), Half, One, Half>>,
       <<(<<1, 1>>), Zero, Rat(3, 1), One>> >>
\* the genotypes 0/0 and 0/1 alone
PartialArgs ==
    << <<(<<0, 0>>), One, One, One>>,
       <<(<<0, 1>>), Half, One, One>> >>
\* one genotype, of full fitness
NeutralArgs == << <<(<<0, 0>>), One, One, One>> >>
\* a fitness above 1
InvalidArgs == << <<(<<0, 0>>), Rat(3, 2), One, One>> >>

GenotypeArgs == {CompleteArgs, PartialArgs, NeutralArgs, InvalidArgs}

ArgsValid(args) == \A i \in DOMAIN args : GenotypeValid(args[i][2], args[i][4])

MakeGenotypes(args) ==
    [i \in DOMAIN args |->
        NewGenotype(args[i][1], args[i][2], args[i][3], args[i][4])]

\* density lists are prefixes of these
Even == <<Rat(2, 5), Rat(2, 5), Tenth, Tenth>>
Skew == <<Half, Quarter, Zero, Quarter>>
Negative == <<Rat(0 - 1, 2), Quarter, Quarter, Quarter>>
Crowded == <<Rat(3, 5), Rat(3, 5), Tenth, Tenth>>
Empty == <<Zero, Zero, Zero, Zero>>

Prefix(s, n) == SubSeq(s, 1, n)

\* density lists for a deme built directly: every base, one entry short,
\* matching and one entry long
DemeDensities(n) ==
    {Prefix(b, l) : b \in {Even, Skew, Negative, Crowded, Empty},
                    l \in {n - 1, n, n + 1}}

\* density lists for the demes of a torus: one deme draws from HotDensities,
\* every other deme holds the one list of ColdDensities
HotDensities(n) ==
    {Prefix(Even, n), Prefix(Empty, n), Prefix(Even, n + 1), Prefix(Skew, n)}
ColdDensities(n) == {Prefix(Skew, n)}

Refuges == {Zero, Half, One, Rat(3, 2)}
Rates == {Zero, Tenth, Quarter, One, Rat(5, 4)}

\* refugeProportion arguments of a torus of n demes: a float, a list of n
\* floats, a list one float long
TorusRefuges(n) ==
    {[kind |-> "float", value |-> <<Half>>],
     [kind |-> "list", value |-> [k \in 1..n |-> IF k % 2 = 1 THEN Zero ELSE One]],
     [kind |-> "list", value |-> [k \in 1..(n + 1) |-> Half]]}

\* migrants handed to a direct receiveMigrants call
Migrants(d) ==
    {[g \in 1..l |-> Tenth] :
        l \in {Len(d.genotypeDensities), Len(d.genotypeDensities) + 1}}

---------------------------------------------------------------------------
(* State *)

NoOp == [op |-> "none", at |-> <<>>]

Init ==
    /\ xlen = 0
    /\ ylen = 0
    /\ genotypes = <<>>
    /\ demes = <<>>
    /\ pc = "new"
    /\ idx = 0
    /\ error = "none"
    /\ nops = 0
    /\ lastOp = NoOp
    /\ pre = <<>>

\* an exception leaves the objects as they are and ends the run
Raise(e) == pc' = "failed" /\ error' = e

\* the outcome of a call that returns the grid and an exception or "none"
Finish(res) ==
    /\ demes' = res.demes
    /\ IF res.err = "none"
       THEN pc' = "idle" /\ error' = error
       ELSE Raise(res.err)

Called(op, at) ==
    /\ nops' = nops + 1
    /\ lastOp' = [op |-> op, at |-> at]

CanCall == pc = "idle" /\ nops < MaxOps

\* the demes whose methods the driver calls directly: a deme built directly
DirectDemes == IF xlen = 0 THEN DOMAIN demes ELSE {}

\* the demes of a torus whose selection() the driver calls directly
SelectedDemes == DOMAIN demes \cap {<<0, 0>>}

---------------------------------------------------------------------------
(* Construction *)

\* Deme(genotypeList, genotypeDensities, refugeProportion), built directly
ConstructDeme ==
    /\ pc = "new"
    /\ \E args \in GenotypeArgs, refugeProportion \in Refuges :
       \E genotypeDensities \in DemeDensities(Len(args)) :
          LET gs == MakeGenotypes(args)
              e == IF ~ArgsValid(args) THEN "AssertionError"
                   ELSE DemeInitErr(gs, genotypeDensities, refugeProportion)
          IN  IF e # "none"
              THEN Raise(e) /\ UNCHANGED <<genotypes, demes>>
              ELSE /\ genotypes' = gs
                   /\ demes' = (<<0, 0>> :>
                        NewDeme(gs, genotypeDensities, refugeProportion))
                   /\ pc' = "idle"
                   /\ error' = error
    /\ lastOp' = [op |-> "Deme", at |-> <<>>]
    /\ UNCHANGED <<xlen, ylen, idx, nops, pre>>

\* TwoDTorus(xlen, ylen, genotypes, genotypeDensities, migrationRate,
\*           refugeProportion)
ConstructTorus ==
    /\ pc = "new"
    /\ \E xl \in 1..MaxX, yl \in 1..MaxY, args \in {CompleteArgs},
          migrationRate \in Rates :
       \E refugeProportion \in TorusRefuges(xl * yl), h \in {1, xl * yl},
          hot \in HotDensities(Len(args)), cold \in ColdDensities(Len(args)) :
          LET gs == MakeGenotypes(args)
              genotypeDensities ==
                  [k \in 1..(xl * yl) |-> IF k = h THEN hot ELSE cold]
              e == TorusInitErr(xl, yl, gs, genotypeDensities,
                                migrationRate, refugeProportion)
          IN  IF e # "none"
              THEN Raise(e) /\ UNCHANGED <<xlen, ylen, genotypes, demes>>
              ELSE /\ xlen' = xl
                   /\ ylen' = yl
                   /\ genotypes' = gs
                   /\ demes' = NewTorus(xl, yl, gs, genotypeDensities,
                                        migrationRate, refugeProportion)
                   /\ pc' = "idle"
                   /\ error' = error
    /\ lastOp' = [op |-> "TwoDTorus", at |-> <<>>]
    /\ UNCHANGED <<idx, nops, pre>>

---------------------------------------------------------------------------
(* Direct calls of a deme's methods *)

DemeRandomMating(p) ==
    /\ CanCall
    /\ Called("Deme.randomMating", p)
    /\ LET e == updateAlleleFreqsErr(genotypes, demes[p])
       IN  IF e # "none"
           THEN Raise(e) /\ UNCHANGED demes
           ELSE /\ demes' = [demes EXCEPT ![p] = randomMating(genotypes, @)]
                /\ UNCHANGED <<pc, error>>
    /\ pre' = <<>>
    /\ UNCHANGED <<xlen, ylen, genotypes, idx>>

DemeLogisticGrowth(p) ==
    /\ CanCall
    /\ Called("Deme.logisticGrowth", p)
    /\ demes' = [demes EXCEPT ![p] = logisticGrowth(genotypes, @)]
    /\ pre' = <<>>
    /\ UNCHANGED <<xlen, ylen, genotypes, pc, idx, error>>

DemeSelection(p) ==
    /\ CanCall
    /\ Called("Deme.selection", p)
    /\ demes' = [demes EXCEPT ![p] = selection(genotypes, @)]
    /\ pre' = <<>>
    /\ UNCHANGED <<xlen, ylen, genotypes, pc, idx, error>>

DemeReceiveMigrants(p) ==
    /\ CanCall
    /\ Called("Deme.receiveMigrants", p)
    /\ \E migrants \in Migrants(demes[p]) :
          IF ~receiveMigrantsOK(demes[p], migrants)
          THEN Raise("AssertionError") /\ UNCHANGED demes
          ELSE /\ demes' = [demes EXCEPT
                               ![p] = receiveMigrants(genotypes, @, migrants)]
               /\ UNCHANGED <<pc, error>>
    /\ pre' = <<>>
    /\ UNCHANGED <<xlen, ylen, genotypes, idx>>

---------------------------------------------------------------------------
(* The orchestration operations of TwoDTorus *)

OnTorus == CanCall /\ xlen > 0

TorusRandomMating ==
    /\ OnTorus
    /\ Called("randomMating", <<>>)
    /\ Finish(torusRandomMating(genotypes, demes, xlen))
    /\ pre' = <<>>
    /\ UNCHANGED <<xlen, ylen, genotypes, idx>>

TorusLogisticGrowth ==
    /\ OnTorus
    /\ Called("logisticGrowth", <<>>)
    /\ demes' = torusLogisticGrowth(genotypes, demes)
    /\ pre' = <<>>
    /\ UNCHANGED <<xlen, ylen, genotypes, pc, idx, error>>

TorusSelection ==
    /\ OnTorus
    /\ Called("selection", <<>>)
    /\ Finish(torusSelection(genotypes, demes))
    /\ pre' = <<>>
    /\ UNCHANGED <<xlen, ylen, genotypes, idx>>

\* migration() is entered: the first pair of loops starts at deme 0
MigrationBegin ==
    /\ OnTorus
    /\ Called("migration", <<>>)
    /\ pc' = "fill"
    /\ idx' = 0
    /\ pre' = densitiesOf(demes)
    /\ UNCHANGED <<xlen, ylen, genotypes, demes, error>>

\* the position after the deme at idx in the current pair of loops
Advance(next) ==
    IF idx + 1 < xlen * ylen
    THEN pc' = pc /\ idx' = idx + 1
    ELSE pc' = next /\ idx' = 0

\* migration() in one pair of loops: each deme fills and sends in its turn
FillStepInterleaved ==
    /\ pc = "fill"
    /\ LET p == DemeAt(xlen, idx)
           filled == [demes EXCEPT ![p] = fillMigrantPools(@)]
       IN  demes' = sendMigrants(genotypes, filled, p).demes
    /\ Advance("send")
    /\ UNCHANGED <<xlen, ylen, genotypes, error, nops, lastOp, pre>>

\* self.demes[r][c].fillMigrantPools() in the first pair of loops
FillStep ==
    /\ pc = "fill"
    /\ demes' = [demes EXCEPT ![DemeAt(xlen, idx)] = fillMigrantPools(@)]
    /\ Advance("send")
    /\ UNCHANGED <<xlen, ylen, genotypes, error, nops, lastOp, pre>>

\* self.demes[r][c].sendMigrants() in the second pair of loops
SendStep ==
    /\ pc = "send"
    /\ LET res == sendMigrants(genotypes, demes, DemeAt(xlen, idx))
       IN  /\ demes' = res.demes
           /\ IF res.err = "none"
              THEN Advance("idle") /\ error' = error
              ELSE Raise(res.err) /\ idx' = idx
    /\ UNCHANGED <<xlen, ylen, genotypes, nops, lastOp, pre>>

Next ==
    \/ ConstructDeme
    \/ ConstructTorus
    \/ \E p \in DirectDemes : DemeRandomMating(p)
    \/ \E p \in DirectDemes : DemeLogisticGrowth(p)
    \/ \E p \in SelectedDemes : DemeSelection(p)
    \/ \E p \in DirectDemes : DemeReceiveMigrants(p)
    \/ TorusRandomMating
    \/ TorusLogisticGrowth
    \/ TorusSelection
    \/ MigrationBegin
    \/ FillStep
    \/ SendStep

Spec == Init /\ [][Next]_vars

---------------------------------------------------------------------------
(* Notions the properties are stated with *)

\* the step is a driver call of op
Calls(op) == nops' = nops + 1 /\ lastOp'.op = op

\* the step is one fillMigrantPools call inside migration()
FillStepped == pc = "fill" /\ (pc' # pc \/ idx' # idx)

\* migration() has returned
Migrated == pc = "idle" /\ lastOp.op = "migration"

\* the demes in the order the loops visit them
Visit(k) == DemeAt(xlen, k)
Visited == 0..(xlen * ylen - 1)

\* sum over all demes of the total of a density list
TotalOf(dens) == VSum([k \in 1..(xlen * ylen) |-> VSum(dens[Visit(k - 1)])])

\* sum over all demes of the density of genotype g
GenotypeTotalOf(dens, g) == VSum([k \in 1..(xlen * ylen) |-> dens[Visit(k - 1)][g]])

NonNegative(dens) ==
    \A p \in DOMAIN dens : \A g \in DOMAIN dens[p] : RLe(Zero, dens[p][g])

Scaled(dens, rate) == [g \in 1..Len(dens) |-> RMul(dens[g], rate)]

\* every density list is as long as the genotype list
LengthsMatch(ds) ==
    \A p \in DOMAIN ds : Len(ds[p].genotypeDensities) = Len(genotypes)

---------------------------------------------------------------------------
(* Properties *)

\* C4: inside migration(), while the fillMigrantPools loops run no deme that
\* has not yet filled its pools has had its densities changed (nobody has
\* sent or received), every deme that has filled holds, on every edge, a pool
\* of migrationRate times its densities at the entry of migration(), and in
\* the sendMigrants loops every pool still to be delivered is migrationRate
\* times its source deme's densities at the entry of migration().
C4_Barrier ==
    /\ pc = "fill" =>
          /\ \A k \in Visited : k >= idx =>
                demes[Visit(k)].genotypeDensities = pre[Visit(k)]
          /\ \A k \in Visited : k < idx =>
                \A n \in DOMAIN demes[Visit(k)].neighbours :
                    demes[Visit(k)].neighbours[n].migrantPool =
                        Scaled(pre[Visit(k)],
                               demes[Visit(k)].neighbours[n].migrationRate)
    /\ pc = "send" =>
          \A k \in Visited :
             \A n \in DOMAIN demes[Visit(k)].neighbours :
                demes[Visit(k)].neighbours[n].migrantPool =
                    IF k >= idx
                    THEN Scaled(pre[Visit(k)],
                                demes[Visit(k)].neighbours[n].migrationRate)
                    ELSE <<>>

\* C4 witness: in the sendMigrants loops of a grid of several demes, a deme
\* that has already received migrants still holds a pool of its own to send
C4_Witness ==
    /\ pc = "send"
    /\ idx > 0
    /\ demes[Visit(idx)].genotypeDensities # pre[Visit(idx)]
    /\ \E g \in DOMAIN pre[Visit(idx)] :
          demes[Visit(idx)].neighbours[1].migrantPool[g] # Zero

\* C5: every deme of a constructed torus has exactly four edges, in the order
\* left, right, up, down, to (r, (c-1) mod xlen), (r, (c+1) mod xlen),
\* ((r-1) mod ylen, c) and ((r+1) mod ylen, c), all with one migration rate,
\* in every state any sequence of operations reaches.
C5_Adjacency ==
    xlen > 0 =>
       /\ DOMAIN demes = Grid(xlen, ylen)
       /\ \E m \in Rates :
            \A p \in DOMAIN demes :
               LET r == p[1]
                   c == p[2]
                   nb == demes[p].neighbours
               IN  /\ Len(nb) = 4
                   /\ nb[1].neighbour = <<r, (c - 1) % xlen>>
                   /\ nb[2].neighbour = <<r, (c + 1) % xlen>>
                   /\ nb[3].neighbour = <<(r - 1) % ylen, c>>
                   /\ nb[4].neighbour = <<(r + 1) % ylen, c>>
                   /\ \A n \in 1..4 : nb[n].migrationRate = m

\* C5 witness: a 3 by 3 torus, where the four neighbours of a deme are four
\* different demes, after a whole migration
C5_Witness == xlen = 3 /\ ylen = 3 /\ Migrated /\ error = "none"

\* d*(1-refugeProportion)*fitness + d*refugeProportion
SelectedDensity(d, refugeProportion, fitness) ==
    RAdd(RMul(RMul(d, RSub(One, refugeProportion)), fitness),
         RMul(d, refugeProportion))

\* C6: a call of Deme.selection replaces each genotype's density d by
\* d*(1-refugeProportion)*fitness + d*refugeProportion and changes nothing
\* else (no other field, no other deme, no exception); with refugeProportion
\* 1 nothing changes, with refugeProportion 0 and all fitnesses 1 nothing
\* changes, and with refugeProportion 0 the densities [0.4, 0.4] under the
\* fitnesses [1, 0.5] become [0.4, 0.2].
C6_Selection ==
    [][Calls("Deme.selection") =>
        LET p == lastOp'.at
            d == demes[p]
            ref == d.refugeProportion
        IN  /\ demes' = [demes EXCEPT ![p].genotypeDensities =
                    [g \in 1..Len(@) |->
                        IF g <= Len(genotypes)
                        THEN SelectedDensity(@[g], ref, genotypes[g].fitness)
                        ELSE @[g]]]
            /\ UNCHANGED <<xlen, ylen, genotypes, pc, idx, error>>
            /\ (ref = One => demes' = demes)
            /\ (ref = Zero /\ (\A g \in DOMAIN genotypes :
                                  genotypes[g].fitness = One)
                    => demes' = demes)
            /\ ((ref = Zero
                 /\ Len(genotypes) = 2
                 /\ d.genotypeDensities = <<Rat(2, 5), Rat(2, 5)>>
                 /\ genotypes[1].fitness = One
                 /\ genotypes[2].fitness = Half)
                    => demes'[p].genotypeDensities = <<Rat(2, 5), Rat(1, 5)>>)
    ]_vars

\* C6 witness: selection has turned [0.4, 0.4] into [0.4, 0.2] in a deme
\* without refuge
C6_Witness ==
    /\ lastOp = [op |-> "Deme.selection", at |-> <<0, 0>>]
    /\ nops = 1
    /\ demes[<<0, 0>>].refugeProportion = Zero
    /\ Len(genotypes) = 2
    /\ genotypes[2].fitness = Half
    /\ demes[<<0, 0>>].genotypeDensities = <<Rat(2, 5), Rat(1, 5)>>

\* C7: a call of fillMigrantPools on a deme leaves on every edge a pool of
\* that edge's migrationRate times the deme's densities at the start of the
\* call, leaves each density at its value at the start minus the sum of that
\* genotype's entries over all the deme's pools, keeps the edges' targets and
\* rates, and changes no other deme.
C7_TwoPass ==
    [][FillStepped =>
        LET p == Visit(idx)
            d == demes[p]
            e == demes'[p]
        IN  /\ Len(e.neighbours) = Len(d.neighbours)
            /\ \A n \in DOMAIN d.neighbours :
                  /\ e.neighbours[n].migrantPool =
                        Scaled(d.genotypeDensities,
                               d.neighbours[n].migrationRate)
                  /\ e.neighbours[n].neighbour = d.neighbours[n].neighbour
                  /\ e.neighbours[n].migrationRate =
                        d.neighbours[n].migrationRate
            /\ e.genotypeDensities =
                  [g \in 1..Len(d.genotypeDensities) |->
                      RSub(d.genotypeDensities[g],
                           VSum([n \in 1..Len(e.neighbours) |->
                                    e.neighbours[n].migrantPool[g]]))]
            /\ \A q \in DOMAIN demes : q # p => demes'[q] = demes[q]
    ]_vars

\* C7 witness: every deme of a grid has filled its pools, and a deme that
\* held density has lost to its four pools what they hold
C7_Witness ==
    /\ pc = "send"
    /\ idx = 0
    /\ \E p \in DOMAIN demes :
          /\ demes[p].genotypeDensities # pre[p]
          /\ \A n \in 1..4 : demes[p].neighbours[n].migrantPool # <<>>
          /\ demes[p].neighbours[2].migrantPool[1] # Zero


\* C1: when migration() has returned, the sum over all demes of
\* currentDensity() equals the sum at its entry, and so does the sum over all
\* demes of each genotype's density.
C1_Conserved ==
    (Migrated /\ error = "none") =>
        /\ TotalOf(densitiesOf(demes)) = TotalOf(pre)
        /\ \A g \in DOMAIN genotypes :
              GenotypeTotalOf(densitiesOf(demes), g) = GenotypeTotalOf(pre, g)

\* C1, as far as the code keeps it: each genotype's density is conserved by
\* migration(), and the total is conserved on a grid whose density lists are
\* all as long as the genotype list.
C1_ConservedPerGenotype ==
    (Migrated /\ error = "none") =>
        /\ \A g \in DOMAIN genotypes :
              GenotypeTotalOf(densitiesOf(demes), g) = GenotypeTotalOf(pre, g)
        /\ LengthsMatch(demes) =>
              TotalOf(densitiesOf(demes)) = TotalOf(pre)

\* C2: a call of Deme.randomMating that raises nothing, on a deme of positive
\* total density whose density list is as long as its genotype list, leaves
\* currentDensity() as it was.
C2_MatingConserves ==
    [][(Calls("Deme.randomMating") /\ error' = "none") =>
        LET p == lastOp'.at
        IN  (/\ Len(demes[p].genotypeDensities) = Len(genotypes)
             /\ RLt(Zero, currentDensity(demes[p])))
                => currentDensity(demes'[p]) = currentDensity(demes[p])
    ]_vars

\* the genotype list holds every genotype of its alleles exactly once
CompleteList(gs) ==
    /\ \A a, b \in DemeAlleles(gs) :
          a <= b => \E g \in DOMAIN gs : gs[g].alleles = <<a, b>>
    /\ \A g, h \in DOMAIN gs : gs[g].alleles = gs[h].alleles => g = h

\* C2, as far as the code keeps it: random mating conserves the total density
\* when the genotype list is complete.
C2_MatingConservesComplete ==
    [][(Calls("Deme.randomMating") /\ error' = "none") =>
        LET p == lastOp'.at
        IN  (/\ Len(demes[p].genotypeDensities) = Len(genotypes)
             /\ CompleteList(genotypes))
                => currentDensity(demes'[p]) = currentDensity(demes[p])
    ]_vars

\* C3: a call of TwoDTorus.selection raises nothing and leaves every deme as
\* Deme.selection makes it from its state before the call.
C3_SelectionApplied ==
    [][Calls("selection") =>
        /\ error' = "none"
        /\ pc' = "idle"
        /\ demes' = [p \in DOMAIN demes |-> selection(genotypes, demes[p])]
    ]_vars

\* C8: in every state, every deme's density list is as long as the genotype
\* list (a construction with a list of another length produces no deme).
C8_LengthInvariant == LengthsMatch(demes)

\* C8, as far as the code keeps it: no density list is shorter than the
\* genotype list, and no operation changes the length of a density list.
C8_NeverShorter ==
    \A p \in DOMAIN demes : Len(demes[p].genotypeDensities) >= Len(genotypes)

\* C9: a call of Deme.logisticGrowth on a deme of non-negative densities,
\* one for each genotype, of total T at the start, gives every genotype the density that
\* Genotype.logisticGrowth returns for its density and T when T is in (0, 1],
\* and otherwise raises the AssertionError Genotype.logisticGrowth raises and
\* changes no density.
C9_GrowthRefines ==
    [][Calls("Deme.logisticGrowth") =>
        LET p == lastOp'.at
            d == demes[p]
            T == currentDensity(d)
        IN  (/\ Len(d.genotypeDensities) = Len(genotypes)
             /\ \A g \in DOMAIN d.genotypeDensities :
                   RLe(Zero, d.genotypeDensities[g]))
            => IF GrowthInRange(T)
               THEN /\ error' = "none"
                    /\ \A g \in DOMAIN genotypes :
                          LET r == GenotypeLogisticGrowth(
                                      genotypes[g], d.genotypeDensities[g], T)
                          IN  r.err = "none" /\
                              demes'[p].genotypeDensities[g] = r.value
               ELSE error' = "AssertionError" /\ demes' = demes
    ]_vars

\* C9, as far as the code keeps it: whenever T is in (0, 1] the deme
\* operation gives what the genotype operation returns, with one T for all.
C9_GrowthRefinesInRange ==
    [][Calls("Deme.logisticGrowth") =>
        LET p == lastOp'.at
            d == demes[p]
            T == currentDensity(d)
        IN  GrowthInRange(T) =>
               /\ error' = "none"
               /\ \A g \in DOMAIN genotypes :
                     demes'[p].genotypeDensities[g] =
                        GenotypeLogisticGrowth(
                            genotypes[g], d.genotypeDensities[g], T).value
    ]_vars

\* the demes that have run fillMigrantPools in the current migration()
Filled == IF pc = "fill" THEN {Visit(k) : k \in 0..(idx - 1)}
          ELSE IF pc = "send" /\ idx = 0 THEN DOMAIN demes ELSE {}

\* C10: if every density was non-negative when migration() was entered, then
\* every density of a deme is non-negative after its fillMigrantPools and
\* every density of every deme is non-negative when migration() has returned.
C10_NonNegative ==
    /\ \A p \in Filled :
          NonNegative(pre) => NonNegative(p :> demes[p].genotypeDensities)
    /\ (Migrated /\ NonNegative(pre)) => NonNegative(densitiesOf(demes))

\* C10, as far as the code keeps it: the same with a migration rate of at
\* most a quarter on each of the four edges.
C10_NonNegativeUpToQuarter ==
    (\A p \in DOMAIN demes : \A n \in DOMAIN demes[p].neighbours :
        RLe(demes[p].neighbours[n].migrationRate, Quarter))
    => C10_NonNegative

====
